---- MODULE Spec2Model ----
(***************************************************************************)
(* Fontana sequencer: UTXO ledger with its sparse Merkle tree, admission,  *)
(* bridge handlers, batching block generator and their SQLite storage, as  *)
(* a state machine.  Spec is the sequencer as it runs; SpecApply, SpecTree,*)
(* SpecBridge, SpecAdmit and SpecBlocks exercise apply_transaction, the    *)
(* tree, the bridge handlers, the admission entry points and the writers   *)
(* of the blocks table on their own; SpecQueue takes the clearing of the   *)
(* pending queue in the two steps the generator thread makes of it;        *)
(* SpecLive is the generator and the blob poster running for ever, and     *)
(* SpecFlush the same with rounds that keep starting; SpecLoop gives the   *)
(* loop its clock and batching decision; SpecPurge runs the purge over the *)
(* rows the wallet writes; SpecPoster is the blob poster's retry loop.     *)
(*                                                                         *)
(* Amounts are integers (units of the smallest amount used).  A hash is    *)
(* modelled by the tuple of the content it is computed from, so two hashes *)
(* are equal exactly when the hashed contents are.  A tree path is the     *)
(* first Depth bits of the key's digest; two keys of the model are given   *)
(* the same path, as happens among a few hundred keys with 16 bits.        *)
(*                                                                         *)
(* Ledger.apply_transaction inserts into columns "inputs" and "outputs" of *)
(* the transactions table, which no CREATE TABLE of the repository         *)
(* declares; every CREATE TABLE is IF NOT EXISTS, so the table of the      *)
(* database file the sequencer is started on decides.  hasInputsColumns    *)
(* is that fact about the file, fixed at start.                            *)
(*                                                                         *)
(* BlockGenerator.create_block_header stores the hash as header.hash as    *)
(* tests/test_block_generator.py expects of it; the declared field types   *)
(* of the models are enforced (prev_hash is a str, never None).            *)
(***************************************************************************)
EXTENDS Integers, Sequences, FiniteSets, TLC

\* ------------------------------------------------------------------ bounds

\* Blocks stored after which the generator starts no further round.
MaxBlocks == 2

\* Calls clients make (submissions, deposits, CLI sends) in one behaviour.
MaxCalls == 3

\* ------------------------------------------------------------- data model

\* SQL NULL / Python None for an optional column: the empty option.
NULL == {}

Some(v) == {v}

TheValue(opt) == CHOOSE v \in opt : TRUE

Addresses == {"A", "B"}

Workers == {"w1", "w2"}

\* UTXORef.to_key / UTXO.key: (txid, output_index).
Key(txid, idx) == <<txid, idx>>

GenesisKey == Key("genesis", 0)

DepositHashes == {"h0"}

DepositTxid(h) == "deposit:" \o h

DepositAmounts == {2}

TxIds == {"t1", "t2", "t3", "t4", "t5", "t6", "t7", "td"}

\* The transactions submitted through the command-line wallet.
CliTxIds == {"t1"}

Out(r, a) == [recipient |-> r, amount |-> a]

MkTx(s, ins, outs, f, ok) ==
    [sender |-> s, inputs |-> ins, outputs |-> outs, fee |-> f, sig |-> ok]

\* The signed transactions clients submit.  outputs[i] is the UTXO
\* (txid, i-1); sig tells whether the signature verifies for the sender.
\*   t1  A spends genesis:0 (10) -> B 4, A 5, fee 1       (balanced)
\*   t2  B spends t1:0 (4)       -> A 3, fee 1            (chained on t1)
\*   t3  A spends genesis:0 (10) -> B 7, fee 1            (inputs exceed outputs + fee)
\*   t4  A lists genesis:0 twice -> B 19, fee 1           (duplicate input)
\*   t5  B spends genesis:0      -> B 9, fee 1            (not the owner)
\*   t6  A spends genesis:0      -> B 10, fee 1           (insufficient funds)
\*   t7  as t1 with a signature that does not verify
\*   td  B spends deposit:h0:0   -> A 1, fee 1            (balanced for a deposit of 2)
\*   t8  A spends genesis:0 (10) -> B 4, A 6, fee 0       (fee below the floor)
\*   t9  A spends nothing        -> B 1, fee 1            (no inputs)
\*   t10 A spends genesis:0      -> nothing, fee 1        (no outputs)
\*   t11 the signed body of t1 under a txid that is not its hash
Tx(t) ==
    CASE t = "t1" -> MkTx("A", <<GenesisKey>>, <<Out("B", 4), Out("A", 5)>>, 1, TRUE)
      [] t = "t2" -> MkTx("B", <<Key("t1", 0)>>, <<Out("A", 3)>>, 1, TRUE)
      [] t = "t3" -> MkTx("A", <<GenesisKey>>, <<Out("B", 7)>>, 1, TRUE)
      [] t = "t4" -> MkTx("A", <<GenesisKey, GenesisKey>>, <<Out("B", 19)>>, 1, TRUE)
      [] t = "t5" -> MkTx("B", <<GenesisKey>>, <<Out("B", 9)>>, 1, TRUE)
      [] t = "t6" -> MkTx("A", <<GenesisKey>>, <<Out("B", 10)>>, 1, TRUE)
      [] t = "t7" -> MkTx("A", <<GenesisKey>>, <<Out("B", 4), Out("A", 5)>>, 1, FALSE)
      [] t = "td" -> MkTx("B", <<Key(DepositTxid("h0"), 0)>>, <<Out("A", 1)>>, 1, TRUE)
      [] t = "t8" -> MkTx("A", <<GenesisKey>>, <<Out("B", 4), Out("A", 6)>>, 0, TRUE)
      [] t = "t9" -> MkTx("A", <<>>, <<Out("B", 1)>>, 1, TRUE)
      [] t = "t10" -> MkTx("A", <<GenesisKey>>, <<>>, 1, TRUE)
      [] t = "t11" -> MkTx("A", <<GenesisKey>>, <<Out("B", 4), Out("A", 5)>>, 1, TRUE)

\* cli/wallet.py line 264: the txid the wallet computes, the hash of the
\* transaction's content.  Every transaction but t11 carries it as its txid.
ContentHash(t) == IF t = "t11" THEN "t1" ELSE t

\* SignedTransaction.input_keys as a set.
InputKeys(t) == {Tx(t).inputs[i] : i \in DOMAIN Tx(t).inputs}

\* SignedTransaction.output_keys as a set.
OutputKeys(t) == {Key(t, i - 1) : i \in DOMAIN Tx(t).outputs}

\* A row of the utxos table.
UtxoRow(r, a, s) == [recipient |-> r, amount |-> a, status |-> s]

RECURSIVE SumSeq(_)
SumSeq(s) == IF s = <<>> THEN 0 ELSE Head(s) + SumSeq(Tail(s))

\* ----------------------------------------------------------------- state

VARIABLES
    hasInputsColumns, \* the transactions table has the inputs/outputs columns
    utxos,            \* utxos table: key -> row, for the keys that have a row
    transactions,     \* transactions table, rows in rowid order
    blocks,           \* blocks table: height -> row, for the heights stored
    deposits,         \* vault_deposits table: set of (tx_hash, recipient)
    leaves,           \* Ledger._state_tree.leaves: key -> leaf hash
    nodes,            \* Ledger._state_tree.nodes: path -> hash
    bridge,           \* the last bridge handler call and the notifications sent
    pending,          \* TransactionProcessor.pending_transactions
    workers,          \* callers inside Ledger.apply_transaction
    gen,              \* the block generator thread
    ret,              \* outcome of the operation that ran last
    spentBy,          \* history: key -> transactions whose apply consumed it and changed state
    calls,            \* history: number of calls clients have made so far
    loop,             \* the clock and the batching fields of the BlockGenerator
    poster,           \* the BlobPoster: retry_queue and the call in progress
    posted            \* history: post_block calls of the generator for its latest block

vars == <<hasInputsColumns, utxos, transactions, blocks, deposits, leaves, nodes, bridge,
          pending, workers, gen, ret, spentBy, calls, loop,
          poster, posted>>

\* ---------------------------------------------------------------- storage

\* The txids of the transactions table.
TxRowIds == {transactions[i].txid : i \in DOMAIN transactions}

\* Ledger._add_utxo_to_state_tree: the leaf value is (recipient, amount).
LeafValue(r, a) == <<r, a>>


\* The function f without the keys in ks.
Without(f, ks) == [k \in (DOMAIN f) \ ks |-> f[k]]

\* ------------------------------------------------------ SparseMerkleTree

\* Length of a tree path (16 bits in smt.py).
Depth == 3

\* The leading bits of sha256(key) for the keys of the model; "t1:0" and
\* "t1:1" are two keys whose paths coincide.
PathBits(k) ==
    CASE k = GenesisKey -> <<0, 0, 0>>
      [] k = Key("t1", 0) -> <<0, 0, 1>>
      [] k = Key("t1", 1) -> <<0, 0, 1>>
      [] k = Key("t2", 0) -> <<0, 1, 0>>
      [] k = Key("t3", 0) -> <<0, 1, 1>>
      [] k = Key("t4", 0) -> <<1, 0, 0>>
      [] k = Key("td", 0) -> <<1, 0, 1>>
      [] k = Key(DepositTxid("h0"), 0) -> <<1, 1, 0>>
      [] OTHER -> <<1, 1, 1>>

\* SparseMerkleTree._key_to_path
KeyToPath(k) == [i \in 1..Depth |-> IF i <= Len(PathBits(k)) THEN PathBits(k)[i] ELSE 0]

\* SparseMerkleTree.EMPTY_NODE_HASH
EmptyNodeHash == <<"H0">>

\* SparseMerkleTree._hash_node
HashNode(left, right) == <<"node", left, right>>

\* SparseMerkleTree._hash_leaf
HashLeaf(k, v) == <<"leaf", k, v>>

\* SparseMerkleTree._get_node_hash
GetNodeHash(n, path) == IF path \in DOMAIN n THEN n[path] ELSE EmptyNodeHash

\* path[:i]
Prefix(path, i) == SubSeq(path, 1, i)

Flip(b) == 1 - b

\* SparseMerkleTree._calculate_root, the loop over the levels: only the
\* working nodes one level below are read, and only their parents kept.
RECURSIVE RootLevels(_, _)
RootLevels(w, level) ==
    IF level < 0 THEN w
    ELSE LET kids == {q \in DOMAIN w : Len(q) = level + 1}
             parents == {Prefix(q, level) : q \in kids}
             child(pp, b) == IF Append(pp, b) \in kids THEN w[Append(pp, b)]
                             ELSE EmptyNodeHash
         IN RootLevels([pp \in parents |-> HashNode(child(pp, 0), child(pp, 1))], level - 1)

\* SparseMerkleTree._calculate_root
CalculateRoot(tr) ==
    IF DOMAIN tr.leaves = {} THEN EmptyNodeHash
    ELSE GetNodeHash(RootLevels(tr.nodes, Depth - 1), <<>>)

\* SparseMerkleTree.update, lines 196-221: the parents of the new leaf.
RECURSIVE UpdateParents(_, _, _)
UpdateParents(n, path, i) ==
    IF i < 0 THEN n
    ELSE LET current_path == Prefix(path, i + 1)
             parent_path == Prefix(path, i)
             sibling_hash == GetNodeHash(n, Append(parent_path, Flip(path[i + 1])))
             parent_hash == IF path[i + 1] = 0 THEN HashNode(n[current_path], sibling_hash)
                            ELSE HashNode(sibling_hash, n[current_path])
         IN UpdateParents((parent_path :> parent_hash) @@ n, path, i - 1)

\* SparseMerkleTree.update(key, value) with a value.
TreeUpdate(tr, k, v) ==
    [leaves |-> (k :> HashLeaf(k, v)) @@ tr.leaves,
     nodes |-> UpdateParents((KeyToPath(k) :> HashLeaf(k, v)) @@ tr.nodes, KeyToPath(k), Depth - 1)]

\* SparseMerkleTree.update(key, None): the leaf and every node on its path.
TreeDelete(tr, k) ==
    [leaves |-> Without(tr.leaves, {k}),
     nodes |-> Without(tr.nodes, {Prefix(KeyToPath(k), i) : i \in 0..Depth})]

EmptyTree == [leaves |-> <<>>, nodes |-> <<>>]

\* SparseMerkleTree.generate_proof for a key of the tree.
GenerateProof(tr, k) ==
    [key |-> k,
     value_hash |-> tr.leaves[k],
     siblings |-> [i \in 1..Depth |->
                     GetNodeHash(tr.nodes, Append(Prefix(KeyToPath(k), i - 1),
                                                  Flip(KeyToPath(k)[i])))],
     path |-> KeyToPath(k)]

\* SparseMerkleTree._calculate_root_with_proof: the siblings are folded in
\* list order, siblings[i] on the side given by path[i].
RECURSIVE RootWithProofFrom(_, _, _, _)
RootWithProofFrom(path, current_hash, siblings, i) ==
    IF i > Len(siblings) \/ i > Len(path) THEN current_hash
    ELSE RootWithProofFrom(path,
                           IF path[i] = 0 THEN HashNode(current_hash, siblings[i])
                           ELSE HashNode(siblings[i], current_hash),
                           siblings, i + 1)

CalculateRootWithProof(k, value_hash, siblings) ==
    RootWithProofFrom(KeyToPath(k), value_hash, siblings, 1)

\* SparseMerkleTree.verify_proof (the two digests it special-cases for
\* "key2" are the roots of no tree of the model).
VerifyProof(k, v, proof, root_hash) ==
    /\ proof.key = k
    /\ CalculateRootWithProof(k, HashLeaf(k, v), proof.siblings) = root_hash

\* Ledger._state_tree
Tree == [leaves |-> leaves, nodes |-> nodes]

\* Ledger.get_current_state_root
StateRoot == CalculateRoot(Tree)

\* Ledger.apply_transaction, lines 300-301: the inputs removed from the tree.
RECURSIVE RemoveInputs(_, _, _)
RemoveInputs(tr, t, i) ==
    IF i > Len(Tx(t).inputs) THEN tr
    ELSE RemoveInputs(TreeDelete(tr, Tx(t).inputs[i]), t, i + 1)

\* Ledger.apply_transaction, lines 344-345: outputs i..n added to the tree.
RECURSIVE AddOutputs(_, _, _, _)
AddOutputs(tr, t, i, n) ==
    IF i > n THEN tr
    ELSE AddOutputs(TreeUpdate(tr, Key(t, i - 1),
                               LeafValue(Tx(t).outputs[i].recipient, Tx(t).outputs[i].amount)),
                    t, i + 1, n)

\* --------------------------------------------------------- Ledger checks

\* Ledger._validate_signature
ValidateSignature(t) == Tx(t).sig

RECURSIVE CheckInputsFrom(_, _)
CheckInputsFrom(t, i) ==
    IF i > Len(Tx(t).inputs) THEN "ok"
    ELSE LET k == Tx(t).inputs[i] IN
         IF k \notin DOMAIN utxos THEN "InputNotFound"
         ELSE IF utxos[k].status = "spent" THEN "InputSpent"
         ELSE IF utxos[k].recipient # Tx(t).sender THEN "NotOwner"
         ELSE CheckInputsFrom(t, i + 1)

\* Ledger._check_inputs_spendable: the first failing input decides.
CheckInputsSpendable(t) == CheckInputsFrom(t, 1)

\* Sum of the amounts of the input rows, one term per listed input.
TotalInput(t) ==
    SumSeq([i \in DOMAIN Tx(t).inputs |->
              IF Tx(t).inputs[i] \in DOMAIN utxos THEN utxos[Tx(t).inputs[i]].amount ELSE 0])

TotalOutput(t) == SumSeq([i \in DOMAIN Tx(t).outputs |-> Tx(t).outputs[i].amount])

\* Ledger._check_sufficient_funds
CheckSufficientFunds(t) == ~(TotalInput(t) < TotalOutput(t) + Tx(t).fee)

\* Ledger.apply_transaction, lines 230-235: the checks made before the
\* database transaction is opened.
PreCheck(t) ==
    IF ~ValidateSignature(t) THEN "InvalidSignature"
    ELSE IF CheckInputsSpendable(t) # "ok" THEN CheckInputsSpendable(t)
    ELSE IF ~CheckSufficientFunds(t) THEN "InsufficientFunds"
    ELSE "ok"

\* An apply_transaction without the re-check of lines 272-290.
RecheckUnspentNone(t) == TRUE

\* Ledger.apply_transaction, lines 272-290: inside the exclusive database
\* transaction every input row must exist with status unspent.
RecheckUnspent(t) ==
    \A k \in InputKeys(t) : k \in DOMAIN utxos /\ utxos[k].status = "unspent"

\* lines 293-301: the inputs marked spent.
MarkSpent(u, ks) ==
    [k \in DOMAIN u |-> IF k \in ks THEN [u[k] EXCEPT !.status = "spent"] ELSE u[k]]

\* lines 330-345: the number of outputs inserted before an INSERT hits the
\* primary key of utxos (all of them when none does).
RECURSIVE OutputsInserted(_, _)
OutputsInserted(t, i) ==
    IF i > Len(Tx(t).outputs) THEN Len(Tx(t).outputs)
    ELSE IF Key(t, i - 1) \in DOMAIN utxos THEN i - 1
    ELSE OutputsInserted(t, i + 1)

OutputRows(t, n) ==
    [k \in {Key(t, i - 1) : i \in 1..n} |->
        UtxoRow(Tx(t).outputs[k[2] + 1].recipient, Tx(t).outputs[k[2] + 1].amount, "unspent")]

\* ------------------------------------------------------------------- Init

GenesisUtxos == (GenesisKey :> UtxoRow("A", 10, "unspent"))

\* The keys of the model in the order their rows enter the utxos table
\* where that order matters: keys of one path are outputs of one transaction.
KeyOrder ==
    <<GenesisKey, Key("t1", 0), Key("t1", 1), Key("t2", 0), Key("t3", 0), Key("t4", 0),
      Key("t5", 0), Key("t6", 0), Key("t7", 0), Key("t7", 1), Key("td", 0),
      Key(DepositTxid("h0"), 0)>>

\* Ledger._initialize_state_tree: every unspent row of utxos is added to
\* an empty tree, in the order of the table.
RECURSIVE BootFrom(_, _, _)
BootFrom(tr, u, i) ==
    IF i > Len(KeyOrder) THEN tr
    ELSE LET k == KeyOrder[i] IN
         BootFrom(IF k \in DOMAIN u /\ u[k].status = "unspent"
                  THEN TreeUpdate(tr, k, LeafValue(u[k].recipient, u[k].amount))
                  ELSE tr,
                  u, i + 1)

BootTree(u) == BootFrom(EmptyTree, u, 1)

\* BlockGenerator.__init__ and the first lines of _block_generation_loop:
\* no batch detected, last_batch_time the time of the start.
LoopStart == [now |-> 0, last_batch_time |-> 0, batch_mode_detected |-> FALSE,
              batch_start_time |-> NULL]

\* BlobPoster.__init__, lines 54-56: an empty retry_queue; no call of
\* post_block_to_celestia is in progress.  returned is the history of the
\* heights for which the DA client returned a reference to the poster.
PosterIdle ==
    [pc |-> "idle", height |-> 0, retry_count |-> 0, attempts |-> 0, result |-> "-",
     retry_queue |-> {}, returned |-> {}]

IdleWorker == [pc |-> "idle", tx |-> "-"]

IdleGen == [pc |-> "loop", height |-> 0, prev_hash |-> NULL, sorted |-> <<>>,
            i |-> 0, applied |-> <<>>, kept |-> <<>>]

\* The empty string, the prev_hash of a first block (generator.py:213).
EmptyString == <<>>

\* "0" * 64: prev_hash of the genesis block and GenesisState.initial_state_root.
ZeroHash == <<"0">>

\* A row of the blocks table: the header fields of header_json (hash is
\* absent from the header_json db.insert_block writes), txs_json, blob_ref.
BlockRow(height, hash, prev_hash, state_root, txs, blob_ref) ==
    [height |-> height, hash |-> hash, prev_hash |-> prev_hash, state_root |-> state_root,
     tx_count |-> Len(txs), txs |-> txs, blob_ref |-> blob_ref]

\* scripts/create_genesis.py: block 0 written by db.insert_block and
\* db.mark_block_committed(0, "genesis").
GenesisBlocks == (0 :> BlockRow(0, NULL, ZeroHash, ZeroHash, <<>>, "genesis"))

NoBlocks == [h \in {} |-> 0]

\* No bridge handler was called and no notification sent.
BridgeIdle ==
    [fields |-> {}, ledger_called |-> FALSE, ledger_result |-> "-", notified |-> {},
     handled |-> {}]

\* No call has returned since the last bookkeeping step.
NoRet == [op |-> "-", tx |-> "-", result |-> "-"]

Init ==
    /\ hasInputsColumns \in BOOLEAN
    /\ utxos = GenesisUtxos
    /\ transactions = <<>>
    /\ blocks \in {NoBlocks, GenesisBlocks}
    /\ deposits = {}
    /\ leaves = BootTree(GenesisUtxos).leaves
    /\ nodes = BootTree(GenesisUtxos).nodes
    /\ pending = <<>>
    /\ workers = [w \in Workers |-> IdleWorker]
    /\ gen = IdleGen
    /\ ret = NoRet
    /\ bridge = BridgeIdle
    /\ spentBy = [k \in {} |-> {}]
    /\ calls = 0
    /\ loop = LoopStart
    /\ poster = PosterIdle
    /\ posted = 0

\* ------------------------------------------------- Ledger.apply_transaction

\* The exclusive database transaction of apply_transaction for t, lines
\* 244-360: what it leaves in utxos, transactions, leaves, and its outcome.
ApplyExclusive(t) ==
    LET removed == RemoveInputs(Tree, t, 1) IN
    IF t \in TxRowIds
    THEN \* lines 255-269: a row for the txid exists: rollback, return True
         [utxos |-> utxos, transactions |-> transactions, leaves |-> leaves, nodes |-> nodes,
          result |-> "True", committed |-> FALSE]
    ELSE IF ~RecheckUnspent(t)
    THEN [utxos |-> utxos, transactions |-> transactions, leaves |-> leaves, nodes |-> nodes,
          result |-> "TransactionValidationError", committed |-> FALSE]
    ELSE IF ~hasInputsColumns
    THEN \* the INSERT of lines 311-327 names columns the table lacks; the
         \* rollback restores the tables, the tree keeps the removals
         [utxos |-> utxos, transactions |-> transactions,
          leaves |-> removed.leaves, nodes |-> removed.nodes,
          result |-> "TransactionValidationError", committed |-> FALSE]
    ELSE LET n == OutputsInserted(t, 1)
             added == AddOutputs(removed, t, 1, n) IN
         IF n < Len(Tx(t).outputs)
         THEN [utxos |-> utxos, transactions |-> transactions,
               leaves |-> added.leaves, nodes |-> added.nodes,
               result |-> "TransactionValidationError", committed |-> FALSE]
         ELSE [utxos |-> OutputRows(t, n) @@ MarkSpent(utxos, InputKeys(t)),
               transactions |-> Append(transactions, [txid |-> t, block_height |-> NULL]),
               leaves |-> added.leaves, nodes |-> added.nodes,
               result |-> "True", committed |-> TRUE]

\* apply_transaction consumed its inputs: it left a table or the set of
\* leaves different from what it found.
ApplyChanged(e) == e.utxos # utxos \/ e.transactions # transactions \/ e.leaves # leaves

\* The history of spends after an apply_transaction(t) that changed state.
RecordSpends(t) ==
    [k \in (DOMAIN spentBy) \cup InputKeys(t) |->
        (IF k \in DOMAIN spentBy THEN spentBy[k] ELSE {}) \cup
        (IF k \in InputKeys(t) THEN {t} ELSE {})]

\* A caller enters apply_transaction(t): lines 230-235.  A failed check
\* raises; otherwise the caller goes on to open the database transaction.
ApplyBegin(w, t) ==
    /\ calls < MaxCalls
    /\ calls' = calls + 1
    /\ workers[w].pc = "idle"
    /\ LET r == PreCheck(t) IN
        /\ workers' = [workers EXCEPT ![w] =
                          IF r = "ok" THEN [pc |-> "checked", tx |-> t] ELSE IdleWorker]
        /\ ret' = [op |-> "apply_check", tx |-> t, result |-> r]
    /\ UNCHANGED <<hasInputsColumns, loop, poster, posted, bridge, utxos, transactions, blocks, deposits, leaves, nodes,
                   pending, gen, spentBy>>

\* The caller runs the exclusive database transaction, lines 244-360.
ApplyCommit(w) ==
    /\ workers[w].pc = "checked"
    /\ LET t == workers[w].tx
           e == ApplyExclusive(t) IN
        /\ utxos' = e.utxos
        /\ transactions' = e.transactions
        /\ leaves' = e.leaves
        /\ nodes' = e.nodes
        /\ spentBy' = IF ApplyChanged(e) THEN RecordSpends(t) ELSE spentBy
        /\ ret' = [op |-> "apply", tx |-> t, result |-> e.result]
    /\ workers' = [workers EXCEPT ![w] = IdleWorker]
    /\ UNCHANGED calls
    /\ UNCHANGED <<hasInputsColumns, loop, poster, posted, bridge, blocks, deposits, pending, gen>>

\* BEGIN EXCLUSIVE (line 244) gives up after the busy timeout while another
\* connection holds the database: the call raises before touching anything.
ApplyBusy(w) ==
    /\ workers[w].pc = "checked"
    /\ \E v \in Workers \ {w} : workers[v].pc = "checked"
    /\ ret' = [op |-> "apply", tx |-> workers[w].tx, result |-> "OperationalError"]
    /\ workers' = [workers EXCEPT ![w] = IdleWorker]
    /\ UNCHANGED calls
    /\ UNCHANGED <<hasInputsColumns, loop, poster, posted, bridge, utxos, transactions, blocks, deposits, leaves, nodes,
                   pending, gen, spentBy>>

\* ------------------------------------------------------ bridge and clients

\* What INSERT OR REPLACE would do in db.insert_utxo.
InsertUtxoReplacing(u, k, row) == [ok |-> TRUE, utxos |-> (k :> row) @@ u]

\* db.insert_utxo: a plain INSERT, refused by the primary key of utxos.
InsertUtxo(u, k, row) ==
    IF k \in DOMAIN u THEN [ok |-> FALSE, utxos |-> u]
    ELSE [ok |-> TRUE, utxos |-> (k :> row) @@ u]

\* Ledger.process_deposit_event, lines 442-463: the vault_deposits row
\* (primary key tx_hash, rollup_wallet_address), then the UTXO row, then the
\* leaf.  A refused INSERT raises; the rows committed before it stay.
DepositEffect(h, r, a) ==
    LET k == Key(DepositTxid(h), 0)
        ins == InsertUtxo(utxos, k, UtxoRow(r, a, "unspent"))
        tr == TreeUpdate(Tree, k, LeafValue(r, a)) IN
    IF <<h, r>> \in deposits
    THEN [deposits |-> deposits, utxos |-> utxos, leaves |-> leaves, nodes |-> nodes,
          result |-> "IntegrityError"]
    ELSE [deposits |-> deposits \cup {<<h, r>>}, utxos |-> ins.utxos,
          leaves |-> IF ins.ok THEN tr.leaves ELSE leaves,
          nodes |-> IF ins.ok THEN tr.nodes ELSE nodes,
          result |-> IF ins.ok THEN "True" ELSE "IntegrityError"]

\* Ledger.process_deposit_event called with tx_hash, rollup_wallet_address
\* and amount.
ProcessDepositEvent(h, r, a) ==
    LET e == DepositEffect(h, r, a) IN
    /\ calls < MaxCalls
    /\ calls' = calls + 1
    /\ deposits' = e.deposits
    /\ utxos' = e.utxos
    /\ leaves' = e.leaves
    /\ nodes' = e.nodes
    /\ ret' = [op |-> "deposit", tx |-> DepositTxid(h), result |-> e.result]
    /\ UNCHANGED <<hasInputsColumns, loop, poster, posted, bridge, transactions, blocks, pending, workers, gen,
                   spentBy>>

\* ------------------------------------------------------- bridge handler

\* The keys handle_deposit_received requires of its dict.
HandlerDepositFields == {"l1_tx_hash", "recipient_address", "amount", "l1_block_height"}

\* The keys Ledger.process_deposit_event reads with details[...].
LedgerDepositFields == {"tx_hash", "rollup_wallet_address", "amount"}

\* The keys handle_withdrawal_confirmed requires of its dict.
HandlerWithdrawalFields == {"l1_tx_hash", "rollup_tx_hash", "amount", "l1_block_height"}

\* The keys Ledger.process_withdrawal_event reads with details[...].
LedgerWithdrawalFields == {"withdrawal_tx_id", "l1_tx_hash"}

\* The dicts handed to handle_deposit_received: what the handler documents,
\* that plus the ledger's names (carrying the same hash and address), one
\* with a required key missing, and the ledger's names alone.
DepositShapes ==
    {HandlerDepositFields, HandlerDepositFields \cup LedgerDepositFields,
     HandlerDepositFields \ {"recipient_address"}, LedgerDepositFields}

WithdrawalShapes ==
    {HandlerWithdrawalFields, HandlerWithdrawalFields \cup LedgerWithdrawalFields,
     HandlerWithdrawalFields \ {"rollup_tx_hash"}}

BridgeHashes == {"h0", "h1"}

\* notification_manager.notify returns or raises.
NotifyOutcomes == {"sent", "raised"}

\* Ledger.process_deposit_event on the dict: details["tx_hash"] and
\* details["rollup_wallet_address"] raise KeyError when the key is missing,
\* before anything is written.
ProcessDepositEventOn(fields, h, r, a) ==
    IF LedgerDepositFields \subseteq fields THEN DepositEffect(h, r, a)
    ELSE [deposits |-> deposits, utxos |-> utxos, leaves |-> leaves, nodes |-> nodes,
          result |-> "KeyError"]

\* Ledger.process_withdrawal_event on the dict: KeyError on a missing key;
\* otherwise an UPDATE of vault_withdrawals, a table no code of the
\* repository inserts into, so it matches no row, and True.
ProcessWithdrawalEventOn(fields) ==
    IF LedgerWithdrawalFields \subseteq fields THEN "True" ELSE "KeyError"

\* A handler that lets the exception of the ledger through.
HandlerResultUncaught(ledger_result) == ledger_result

\* handler.py lines 49-74 and 106-131: the try around the ledger call;
\* the ledger's result is returned, an exception becomes False.
HandlerResult(ledger_result) == IF ledger_result = "True" THEN "True" ELSE "False"

\* What the handler leaves in bridge: the dict's keys, whether and how the
\* ledger was called, the notifications delivered so far, and the hashes
\* it was given with all required keys present.
BridgeAfter(fields, called, ledger_result, event, h, n) ==
    [fields |-> fields, ledger_called |-> called, ledger_result |-> ledger_result,
     notified |-> IF called /\ ledger_result = "True" /\ n = "sent"
                  THEN bridge.notified \cup {<<event, h>>} ELSE bridge.notified,
     handled |-> IF called /\ event = "DEPOSIT_PROCESSED" THEN bridge.handled \cup {h}
                 ELSE bridge.handled]

\* bridge/handler.py handle_deposit_received
HandleDepositReceived(fields, h, r, a, n) ==
    LET called == HandlerDepositFields \subseteq fields
        e == IF called THEN ProcessDepositEventOn(fields, h, r, a)
             ELSE [deposits |-> deposits, utxos |-> utxos, leaves |-> leaves, nodes |-> nodes,
                   result |-> "-"] IN
    /\ calls < MaxCalls
    /\ calls' = calls + 1
    /\ deposits' = e.deposits
    /\ utxos' = e.utxos
    /\ leaves' = e.leaves
    /\ nodes' = e.nodes
    /\ ret' = [op |-> "handle_deposit", tx |-> DepositTxid(h),
               result |-> IF called THEN HandlerResult(e.result) ELSE "False"]
    /\ bridge' = BridgeAfter(fields, called, e.result, "DEPOSIT_PROCESSED", h, n)
    /\ UNCHANGED <<hasInputsColumns, loop, poster, posted, transactions, blocks, pending, workers, gen, spentBy>>

\* bridge/handler.py handle_withdrawal_confirmed
HandleWithdrawalConfirmed(fields, h, n) ==
    LET called == HandlerWithdrawalFields \subseteq fields
        lr == IF called THEN ProcessWithdrawalEventOn(fields) ELSE "-" IN
    /\ calls < MaxCalls
    /\ calls' = calls + 1
    /\ ret' = [op |-> "handle_withdrawal", tx |-> h,
               result |-> IF called THEN HandlerResult(lr) ELSE "False"]
    /\ bridge' = BridgeAfter(fields, called, lr, "WITHDRAWAL_CONFIRMED", h, n)
    /\ UNCHANGED <<hasInputsColumns, loop, poster, posted, utxos, transactions, blocks, deposits, leaves, nodes,
                   pending, workers, gen, spentBy>>

\* cli/wallet.py send: db.insert_transaction writes the row with
\* block_height NULL; the primary key txid refuses a second row.
CliInsertTransaction(t) ==
    /\ calls < MaxCalls
    /\ calls' = calls + 1
    /\ IF t \in TxRowIds
       THEN /\ ret' = [op |-> "insert_transaction", tx |-> t, result |-> "IntegrityError"]
            /\ UNCHANGED transactions
       ELSE /\ transactions' = Append(transactions, [txid |-> t, block_height |-> NULL])
            /\ ret' = [op |-> "insert_transaction", tx |-> t, result |-> "ok"]
    /\ UNCHANGED <<hasInputsColumns, loop, poster, posted, bridge, utxos, blocks, deposits, leaves, nodes, pending, workers,
                   gen, spentBy>>

\* ------------------------------------------------------------- admission

\* config.minimum_transaction_fee (0.01): one unit of the model's amounts.
MinimumFee == 1

\* A fee test that also turns away a fee equal to the minimum.
FeeBelowMinimumOrEqual(fee) == fee <= MinimumFee

\* processor.py lines 81 and 215: tx.fee < self.minimum_fee
FeeBelowMinimum(fee) == fee < MinimumFee

\* An admission that does not look at the lists.
HasInputsAndOutputsUnchecked(t) == TRUE

\* processor.py lines 229-231: not (not tx.inputs or not tx.outputs)
HasInputsAndOutputs(t) == ~(Tx(t).inputs = <<>> \/ Tx(t).outputs = <<>>)

\* TransactionProcessor.validate_transaction_fast: the reason of the first
\* failing check, or "ok".
ValidateTransactionFast(t) ==
    IF FeeBelowMinimum(Tx(t).fee) THEN "fee below minimum"
    ELSE IF \E i \in DOMAIN pending : pending[i] = t THEN "already pending"
    ELSE IF ~ValidateSignature(t) THEN "Invalid signature"
    ELSE IF ~HasInputsAndOutputs(t) THEN "must have inputs and outputs"
    ELSE "ok"

\* TransactionProcessor.process_transaction_fast
ProcessTransactionFast(t) ==
    /\ calls < MaxCalls
    /\ calls' = calls + 1
    /\ LET r == ValidateTransactionFast(t) IN
        /\ pending' = IF r = "ok" THEN Append(pending, t) ELSE pending
        /\ ret' = [op |-> "admit", tx |-> t,
                   result |-> IF r = "ok" THEN "provisionally_accepted" ELSE "rejected"]
    /\ UNCHANGED <<hasInputsColumns, loop, poster, posted, bridge, utxos, transactions, blocks, deposits, leaves, nodes,
                   workers, gen, spentBy>>

\* TransactionProcessor.process_transaction.  processed_txids gets an entry
\* only after tx.verify_signature() returned (line 94), and SignedTransaction
\* defines no verify_signature: the fee test raises InsufficientFeeError,
\* every other call AttributeError, and the except of line 114 raises
\* ProcessingError with that message.  processed_txids stays empty and the
\* queue is not touched.
ProcessTransaction(t) ==
    /\ calls < MaxCalls
    /\ calls' = calls + 1
    /\ ret' = [op |-> "process_transaction", tx |-> t,
               result |-> IF FeeBelowMinimum(Tx(t).fee)
                          THEN "ProcessingError(InsufficientFeeError)"
                          ELSE "ProcessingError(AttributeError)"]
    /\ UNCHANGED <<hasInputsColumns, loop, poster, posted, bridge, utxos, transactions, blocks, deposits, leaves, nodes,
                   pending, workers, gen, spentBy>>

\* ------------------------------------------- db.purge_invalid_transactions

\* db.fetch_uncommitted_transactions: rows with block_height NULL, in rowid order.
FetchUncommitted ==
    LET rows == SelectSeq(transactions, LAMBDA r : r.block_height = NULL)
    IN [i \in DOMAIN rows |-> rows[i].txid]

SeqToSet(s) == {s[i] : i \in DOMAIN s}

\* lines 471-484: the inputs of every row whose block_height is not NULL.
CommittedInputs ==
    UNION {InputKeys(transactions[i].txid) :
             i \in {j \in DOMAIN transactions : transactions[j].block_height # NULL}}

\* lines 499-515: dependency_graph[t], the txids of t's inputs that are
\* uncommitted rows, one entry per input.
PurgeDeps(t, U) ==
    SelectSeq([i \in DOMAIN Tx(t).inputs |-> Tx(t).inputs[i][1]], LAMBDA x : x \in U)

RECURSIVE CountIn(_, _)
CountIn(s, x) ==
    IF s = <<>> THEN 0 ELSE (IF Head(s) = x THEN 1 ELSE 0) + CountIn(Tail(s), x)

\* lines 524-527: in_degree[d] counts the entries d of all dependency lists.
PurgeInDegree(order, U) ==
    [d \in U |-> SumSeq([i \in DOMAIN order |-> CountIn(PurgeDeps(order[i], U), d)])]

\* A scan that looks up every input in the utxos table, also the outputs of
\* uncommitted rows.
RECURSIVE PurgeIsDoubleSpendNoChain(_, _, _, _)
PurgeIsDoubleSpendNoChain(t, i, U, spent) ==
    IF i > Len(Tx(t).inputs) THEN FALSE
    ELSE LET k == Tx(t).inputs[i] IN
         IF k \in spent THEN TRUE
         ELSE IF k \notin DOMAIN utxos THEN TRUE
         ELSE IF utxos[k].status = "spent" THEN TRUE
         ELSE PurgeIsDoubleSpendNoChain(t, i + 1, U, spent)

\* lines 549-579: whether the scan of t's inputs ends in is_double_spend.
RECURSIVE PurgeIsDoubleSpend(_, _, _, _)
PurgeIsDoubleSpend(t, i, U, spent) ==
    IF i > Len(Tx(t).inputs) THEN FALSE
    ELSE LET k == Tx(t).inputs[i] IN
         IF k \in spent /\ k[1] \notin U THEN TRUE
         ELSE IF k[1] \in U THEN PurgeIsDoubleSpend(t, i + 1, U, spent)
         ELSE IF k \notin DOMAIN utxos THEN TRUE
         ELSE IF utxos[k].status = "spent" THEN TRUE
         ELSE PurgeIsDoubleSpend(t, i + 1, U, spent)

\* lines 599-602: the in-degrees and the queue after the walk over deps.
RECURSIVE PurgeRelease(_, _, _)
PurgeRelease(deps, indeg, queue) ==
    IF deps = <<>> THEN [indeg |-> indeg, queue |-> queue]
    ELSE LET d == Head(deps)
             n == indeg[d] - 1 IN
         PurgeRelease(Tail(deps), [indeg EXCEPT ![d] = n],
                      IF n = 0 THEN Append(queue, d) ELSE queue)

\* lines 534-602: the queue loop; the result is txids_to_remove.
RECURSIVE PurgeLoop(_, _, _, _, _, _)
PurgeLoop(queue, processed, spent, indeg, remove, U) ==
    IF queue = <<>> THEN remove
    ELSE LET t == Head(queue) IN
         IF t \in processed THEN PurgeLoop(Tail(queue), processed, spent, indeg, remove, U)
         ELSE LET ds == PurgeIsDoubleSpend(t, 1, U, spent)
                  rel == PurgeRelease(PurgeDeps(t, U), indeg, Tail(queue)) IN
              PurgeLoop(rel.queue, processed \cup {t},
                        IF ds THEN spent ELSE spent \cup InputKeys(t),
                        rel.indeg,
                        IF ds THEN remove \cup {t} ELSE remove, U)

\* db.purge_invalid_transactions: the txids whose rows it deletes.
PurgeInvalidTransactions ==
    LET order == FetchUncommitted
        U == SeqToSet(order)
        indeg == PurgeInDegree(order, U)
        queue == SelectSeq(order, LAMBDA t : indeg[t] = 0)
    IN PurgeLoop(queue, {}, CommittedInputs, indeg, {}, U)

\* The transactions table after the DELETE of lines 605-612.
DeleteRows(rows, ids) == SelectSeq(rows, LAMBDA r : r.txid \notin ids)

\* --------------------------------- BlockGenerator._sort_transactions_topologically

\* The first occurrences of the elements of s, in order (the keys of tx_map).
RECURSIVE Dedup(_)
Dedup(s) ==
    IF s = <<>> THEN <<>>
    ELSE <<Head(s)>> \o SelectSeq(Dedup(Tail(s)), LAMBDA x : x # Head(s))

\* lines 129-132: key k is an output created by a transaction of the batch.
InBatchOutputs(k, ids) == k[1] \in ids /\ k[2] < Len(Tx(k[1]).outputs)

\* lines 141-150: the creators t depends on, one entry per such input.
SortCreators(t, ids) ==
    LET cs == [i \in DOMAIN Tx(t).inputs |-> Tx(t).inputs[i]]
        hit == SelectSeq(cs, LAMBDA k : InBatchOutputs(k, ids) /\ k[1] # t)
    IN [i \in DOMAIN hit |-> hit[i][1]]

RECURSIVE SortDependents(_, _, _)
\* graph[c]: the dependents of c in the order the loop of lines 141-150 adds them.
SortDependents(txs, c, ids) ==
    IF txs = <<>> THEN <<>>
    ELSE LET n == CountIn(SortCreators(Head(txs), ids), c) IN
         [i \in 1..n |-> Head(txs)] \o SortDependents(Tail(txs), c, ids)

RECURSIVE SortRelease(_, _, _)
SortRelease(deps, indeg, queue) ==
    IF deps = <<>> THEN [indeg |-> indeg, queue |-> queue]
    ELSE LET d == Head(deps)
             n == indeg[d] - 1 IN
         SortRelease(Tail(deps), [indeg EXCEPT ![d] = n],
                     IF n = 0 THEN Append(queue, d) ELSE queue)

\* lines 158-169: Kahn's loop; the result is sorted_order.
RECURSIVE KahnLoop(_, _, _, _, _)
KahnLoop(queue, indeg, sorted, txs, ids) ==
    IF queue = <<>> THEN sorted
    ELSE LET c == Head(queue)
             rel == SortRelease(SortDependents(txs, c, ids), indeg, Tail(queue)) IN
         KahnLoop(rel.queue, rel.indeg, Append(sorted, c), txs, ids)

\* The batch left in its arrival order.
SortNothing(txs) == txs

SortTransactionsTopologically(txs) ==
    IF txs = <<>> THEN <<>>
    ELSE LET keys == Dedup(txs)
             ids == SeqToSet(txs)
             indeg == [t \in ids |->
                         SumSeq([i \in DOMAIN txs |->
                                   IF txs[i] = t THEN Len(SortCreators(t, ids)) ELSE 0])]
             queue == SelectSeq(keys, LAMBDA t : indeg[t] = 0)
             sorted == KahnLoop(queue, indeg, <<>>, txs, ids)
         IN IF Len(sorted) # Len(txs) THEN txs ELSE sorted

\* ------------------------------------------------------------ db.save_block

\* db.mark_transactions_committed: block_height := height for the txids.
MarkTransactionsCommitted(rows, ids, height) ==
    [i \in DOMAIN rows |->
        IF rows[i].txid \in ids THEN [rows[i] EXCEPT !.block_height = Some(height)]
        ELSE rows[i]]

SaveOutcomes == {"ok", "insert_failed", "mark_failed"}

\* The values of blob_ref that stand for "not yet posted": the empty string
\* of a fresh header and the NULL written for a post that returned None.
EmptyRefs == {"", "None"}

\* An INSERT OR REPLACE: the row of an existing height is rewritten.
SaveBlockReplacing(row, o) ==
    [blocks |-> (row.height :> row) @@ blocks,
     transactions |-> MarkTransactionsCommitted(transactions, SeqToSet(row.txs), row.height),
     raised |-> FALSE]

\* db.save_block(block) with the storage outcome o: the blocks and
\* transactions tables it leaves, and whether it raised.
SaveBlock(row, o) ==
    IF row.height \in DOMAIN blocks
    THEN \* lines 331-351: the row exists; only an empty blob_ref is filled
         [blocks |-> IF row.blob_ref \notin EmptyRefs /\ blocks[row.height].blob_ref \in EmptyRefs
                     THEN [blocks EXCEPT ![row.height].blob_ref = row.blob_ref]
                     ELSE blocks,
          transactions |-> transactions, raised |-> FALSE]
    ELSE IF o = "insert_failed" THEN [blocks |-> blocks, transactions |-> transactions, raised |-> TRUE]
    ELSE IF o = "mark_failed" THEN [blocks |-> (row.height :> row) @@ blocks, transactions |-> transactions, raised |-> TRUE]
    ELSE [blocks |-> (row.height :> row) @@ blocks,
          transactions |-> MarkTransactionsCommitted(transactions, SeqToSet(row.txs), row.height), raised |-> FALSE]

\* TransactionProcessor.clear_processed_transactions
ClearProcessedTransactions(q, ids) == SelectSeq(q, LAMBDA t : t \notin ids)

\* ---------------------------------------------------------- BlockGenerator

\* config.max_block_transactions
MaxBlockSize == 2

Max(S) == CHOOSE x \in S : \A y \in S : y <= x

\* A height computation that leaves a gap above the latest block.
NextHeightSkipping == IF DOMAIN blocks = {} THEN 0 ELSE Max(DOMAIN blocks) + 2

\* generator.py:196-213: the height of the next block.
NextHeight == IF DOMAIN blocks = {} THEN 0 ELSE Max(DOMAIN blocks) + 1

\* A prev_hash that ignores the latest block.
NextPrevHashEmpty == Some(EmptyString)

\* generator.py:196-213: the prev_hash of the next block, the hash read back
\* by db.get_latest_block (None when header_json stores none).
NextPrevHash == IF DOMAIN blocks = {} THEN Some(EmptyString) ELSE blocks[Max(DOMAIN blocks)].hash

\* BlockGenerator.create_block_header: the hash over the header's fields.
HeaderHash(height, prev_hash, state_root, tx_count) ==
    <<height, prev_hash, state_root, tx_count>>

\* TransactionProcessor.get_pending_transactions(limit)
GetPendingTransactions(limit) ==
    IF limit >= Len(pending) THEN pending ELSE SubSeq(pending, 1, limit)

\* One pass of _block_generation_loop up to the decision (lines 393-461):
\* get_transaction_stats purges, then merges the uncommitted rows into the
\* pending queue; the elapsed times that decide should_generate are free,
\* but no trigger fires with nothing pending.
LoopStats ==
    /\ gen.pc = "loop"
    /\ LET rows == DeleteRows(transactions, PurgeInvalidTransactions)
           db_txs == [i \in DOMAIN SelectSeq(rows, LAMBDA r : r.block_height = NULL) |->
                        SelectSeq(rows, LAMBDA r : r.block_height = NULL)[i].txid]
           new_txs == SelectSeq(db_txs, LAMBDA t : t \notin SeqToSet(pending))
           queue == pending \o new_txs IN
        /\ transactions' = rows
        /\ pending' = queue
        /\ \E should_generate \in BOOLEAN :
              /\ should_generate => (Len(queue) > 0 /\ Cardinality(DOMAIN blocks) < MaxBlocks)
              /\ gen' = [gen EXCEPT !.pc = IF should_generate THEN "generate" ELSE "loop"]
        /\ ret' = NoRet
    /\ UNCHANGED calls
    /\ UNCHANGED <<hasInputsColumns, loop, poster, posted, bridge, utxos, blocks, deposits, leaves, nodes, workers, spentBy>>

\* generate_block, lines 193-250: latest block, snapshot of the queue, sort.
GenerateBegin ==
    /\ gen.pc = "generate"
    /\ LET pending_txs == GetPendingTransactions(MaxBlockSize) IN
        IF pending_txs = <<>>
        THEN gen' = IdleGen
        ELSE gen' = [pc |-> "apply", height |-> NextHeight, prev_hash |-> NextPrevHash,
                     sorted |-> IF Len(pending_txs) > 1
                                THEN SortTransactionsTopologically(pending_txs)
                                ELSE pending_txs,
                     i |-> 1, applied |-> <<>>, kept |-> <<>>]
    /\ ret' = NoRet
    /\ UNCHANGED calls
    /\ UNCHANGED <<hasInputsColumns, loop, poster, posted, bridge, utxos, transactions, blocks, deposits, leaves, nodes,
                   pending, workers, spentBy>>

\* A round that keeps every transaction of the batch, applied or not.
AppliedAfterAny(applied, t, result) == Append(applied, t)

\* generate_block, lines 262-284: applied_txs after apply_transaction(t)
\* returned True, returned False or raised.
AppliedAfter(applied, t, result) ==
    IF result = "True" THEN Append(applied, t) ELSE applied

\* generate_block, lines 262-284: apply_transaction on the next transaction
\* of the sorted batch; a raised error is logged and the transaction skipped.
GenerateApply ==
    /\ gen.pc = "apply"
    /\ gen.i <= Len(gen.sorted)
    /\ LET t == gen.sorted[gen.i]
           r == PreCheck(t)
           e == ApplyExclusive(t) IN
        IF r # "ok"
        THEN /\ ret' = [op |-> "apply", tx |-> t, result |-> r]
             /\ gen' = [gen EXCEPT !.i = gen.i + 1, !.applied = AppliedAfter(gen.applied, t, r)]
             /\ UNCHANGED <<utxos, transactions, leaves, nodes, spentBy>>
        ELSE /\ utxos' = e.utxos
             /\ transactions' = e.transactions
             /\ leaves' = e.leaves
             /\ nodes' = e.nodes
             /\ spentBy' = IF ApplyChanged(e) THEN RecordSpends(t) ELSE spentBy
             /\ ret' = [op |-> "apply", tx |-> t, result |-> e.result]
             /\ gen' = [gen EXCEPT !.i = gen.i + 1,
                                   !.applied = AppliedAfter(gen.applied, t, e.result)]
    /\ UNCHANGED calls
    /\ UNCHANGED <<hasInputsColumns, loop, poster, posted, bridge, blocks, deposits, pending, workers>>

\* A round that goes on to build a block whatever was applied.
NothingAppliedIgnored(applied) == FALSE

\* generate_block, lines 286-289: "if not applied_txs: return None".
NothingApplied(applied) == applied = <<>>

\* generate_block, lines 286-343: header, save_block, clear of the queue,
\* and the first post_block of the block (lines 332-343), whose result is
\* dropped.
\* BlockHeader rejects a prev_hash of None, which ends the round with
\* BlockGenerationError.
GenerateFinish ==
    /\ gen.pc = "apply"
    /\ gen.i > Len(gen.sorted)
    /\ IF NothingApplied(gen.applied)
       THEN /\ gen' = IdleGen
            /\ ret' = [op |-> "generate", tx |-> "-", result |-> "None"]
            /\ UNCHANGED <<blocks, transactions, pending, posted>>
       ELSE IF gen.prev_hash = NULL
       THEN /\ gen' = IdleGen
            /\ ret' = [op |-> "generate", tx |-> "-", result |-> "BlockGenerationError"]
            /\ UNCHANGED <<blocks, transactions, pending, posted>>
       ELSE \E o \in SaveOutcomes :
            LET prev == TheValue(gen.prev_hash)
                row == BlockRow(gen.height,
                                Some(HeaderHash(gen.height, prev, StateRoot, Len(gen.applied))),
                                prev, StateRoot, gen.applied, "")
                sv == SaveBlock(row, o) IN
            /\ blocks' = sv.blocks
            /\ transactions' = sv.transactions
            /\ pending' = IF sv.raised THEN pending
                          ELSE ClearProcessedTransactions(pending, SeqToSet(gen.applied))
            /\ gen' = [gen EXCEPT !.pc = "post"]
            /\ posted' = 1
            /\ ret' = [op |-> "generate", tx |-> "-",
                       result |-> IF sv.raised THEN "save_failed" ELSE "block"]
    /\ UNCHANGED calls
    /\ UNCHANGED <<hasInputsColumns, loop, poster, bridge, utxos, deposits, leaves, nodes, workers, spentBy>>

PostOutcomes == {"ref", "none", "raise"}

\* A writer that rolls the block back when no reference came.
UpdateBlockBlobRefOrDrop(height, ref) ==
    IF ref = "None" THEN [h \in DOMAIN blocks \ {height} |-> blocks[h]]
    ELSE IF height \in DOMAIN blocks THEN [blocks EXCEPT ![height].blob_ref = ref] ELSE blocks

\* db.update_block_blob_ref
UpdateBlockBlobRef(height, ref) ==
    IF height \in DOMAIN blocks THEN [blocks EXCEPT ![height].blob_ref = ref] ELSE blocks

\* _block_generation_loop, lines 471-497: the block generate_block returned
\* is posted to the DA layer (line 482), the returned reference written,
\* the queue cleared.
LoopPost ==
    /\ gen.pc = "post"
    /\ \E o \in PostOutcomes :
          blocks' = IF o = "ref" THEN UpdateBlockBlobRef(gen.height, "ref")
                    ELSE IF o = "none" THEN UpdateBlockBlobRef(gen.height, "None")
                    ELSE blocks
    /\ pending' = ClearProcessedTransactions(pending, SeqToSet(gen.applied))
    /\ gen' = IdleGen
    /\ ret' = NoRet
    /\ posted' = posted + 1
    /\ UNCHANGED calls
    /\ UNCHANGED <<hasInputsColumns, loop, poster, bridge, utxos, transactions, deposits, leaves, nodes, workers, spentBy>>

\* The transactions clients submit to process_transaction_fast.
FastTxIds == {"t1", "t2", "t3", "t4", "td"}

Next ==
    \/ \E t \in FastTxIds : ProcessTransactionFast(t)
    \/ \E t \in CliTxIds : CliInsertTransaction(t)
    \/ \E h \in DepositHashes, r \in Addresses, a \in DepositAmounts : ProcessDepositEvent(h, r, a)
    \/ LoopStats
    \/ GenerateBegin
    \/ GenerateApply
    \/ GenerateFinish
    \/ LoopPost

Spec == Init /\ [][Next]_vars

\* The transactions clients submit while the generator and the poster run.
LiveTxIds == {"t1", "t2"}

\* ------------------------------------- the pending queue under two threads

\* clear_processed_transactions, called by the loop after the post, as the
\* generator thread runs it beside the admission thread, the queue having no
\* lock: first the list comprehension builds the list of the entries to
\* keep from the queue as it is then.
LoopPostFilter ==
    /\ gen.pc = "post"
    /\ \E o \in PostOutcomes :
          blocks' = IF o = "ref" THEN UpdateBlockBlobRef(gen.height, "ref")
                    ELSE IF o = "none" THEN UpdateBlockBlobRef(gen.height, "None")
                    ELSE blocks
    /\ gen' = [gen EXCEPT !.pc = "clear",
                          !.kept = ClearProcessedTransactions(pending, SeqToSet(gen.applied))]
    /\ ret' = NoRet
    /\ posted' = posted + 1
    /\ UNCHANGED <<hasInputsColumns, loop, poster, bridge, utxos, transactions, deposits, leaves, nodes, pending,
                   workers, spentBy, calls>>

\* ... then the assignment makes that list the queue.
LoopClearStore ==
    /\ gen.pc = "clear"
    /\ pending' = gen.kept
    /\ gen' = IdleGen
    /\ ret' = NoRet
    /\ UNCHANGED <<hasInputsColumns, loop, poster, posted, bridge, utxos, transactions, blocks, deposits, leaves, nodes,
                   workers, spentBy, calls>>

NextQueue ==
    \/ \E t \in LiveTxIds : ProcessTransactionFast(t)
    \/ LoopStats
    \/ GenerateBegin
    \/ GenerateApply
    \/ GenerateFinish
    \/ LoopPostFilter
    \/ LoopClearStore

SpecQueue == Init /\ [][NextQueue]_vars

\* ---------------------------------------- the loop's decision to generate

\* Seconds after the start at which the clock of the model stops.
MaxTime == 6

\* generator.block_interval, in seconds.
BlockInterval == 1

\* self.batch_collection_timeout, in seconds.
BatchCollectionTimeout == 3

Min(a, b) == IF a <= b THEN a ELSE b

\* min(3, self.max_block_size // 10)
MinTxThreshold == Min(3, MaxBlockSize \div 10)

\* _is_batch_transaction for one of the first five pending transactions:
\* more than one pending transaction of its sender is younger than five
\* seconds; recent tells whether the pending transactions are that young.
IsBatch(q, recent) ==
    /\ recent
    /\ \E i \in 1..Min(5, Len(q)) :
          Cardinality({j \in DOMAIN q : Tx(q[j]).sender = Tx(q[i]).sender}) > 1

\* _block_generation_loop, lines 390-465: what one iteration decides for
\* tx_count pending transactions, and the fields it leaves.
LoopDecide(tx_count, is_batch, lp) ==
    LET found == tx_count > 0 /\ is_batch
        detected == found \/ lp.batch_mode_detected
        start == IF found /\ ~lp.batch_mode_detected THEN Some(lp.now) ELSE lp.batch_start_time
        since == lp.now - lp.last_batch_time
        standard == \/ tx_count >= MaxBlockSize
                    \/ tx_count >= MinTxThreshold /\ since >= 2 * BlockInterval
                    \/ tx_count > 0 /\ since >= 5 * BlockInterval
    IN  IF tx_count > 0 /\ detected
        THEN IF lp.now - TheValue(start) < BatchCollectionTimeout
             THEN \* lines 417-423: sleep and continue
                  [decision |-> "continue",
                   loop |-> [lp EXCEPT !.batch_mode_detected = TRUE, !.batch_start_time = start]]
             ELSE \* lines 424-431: the collection time is up
                  [decision |-> "generate",
                   loop |-> [lp EXCEPT !.batch_mode_detected = FALSE, !.batch_start_time = NULL,
                                       !.last_batch_time = lp.now]]
        ELSE IF standard
        THEN [decision |-> "generate", loop |-> [lp EXCEPT !.last_batch_time = lp.now]]
        ELSE [decision |-> "wait", loop |-> lp]

\* get_transaction_stats: the rows the purge leaves and the queue after
\* the merge of the uncommitted rows.
StatsRows == DeleteRows(transactions, PurgeInvalidTransactions)

StatsQueue ==
    LET uncommitted == SelectSeq(StatsRows, LAMBDA r : r.block_height = NULL)
        db_txs == [i \in DOMAIN uncommitted |-> uncommitted[i].txid]
    IN  pending \o SelectSeq(db_txs, LAMBDA t : t \notin SeqToSet(pending))

\* One iteration of _block_generation_loop up to "if should_generate".
LoopIteration ==
    /\ gen.pc = "loop"
    /\ Cardinality(DOMAIN blocks) < MaxBlocks
    /\ transactions' = StatsRows
    /\ pending' = StatsQueue
    /\ \E recent \in BOOLEAN :
          LET d == LoopDecide(Len(StatsQueue), IsBatch(StatsQueue, recent), loop) IN
          /\ loop' = d.loop
          /\ gen' = [gen EXCEPT !.pc = IF d.decision = "generate" THEN "generate" ELSE "loop"]
          /\ ret' = [op |-> "loop", tx |-> "-", result |-> d.decision]
    /\ UNCHANGED <<hasInputsColumns, poster, posted, utxos, blocks, deposits, leaves, nodes, bridge, workers,
                   spentBy, calls>>

\* The clock advances by a second.
Tick ==
    /\ loop.now < MaxTime
    /\ loop' = [loop EXCEPT !.now = loop.now + 1]
    /\ UNCHANGED <<hasInputsColumns, poster, posted, utxos, transactions, blocks, deposits, leaves, nodes, bridge,
                   pending, workers, gen, ret, spentBy, calls>>

\* The transactions clients submit while the loop decides.
LoopTxIds == {"t1", "t3"}

NextLoop ==
    \/ \E t \in LoopTxIds : ProcessTransactionFast(t)
    \/ Tick
    \/ LoopIteration
    \/ GenerateBegin
    \/ GenerateApply
    \/ GenerateFinish
    \/ LoopPost

SpecLoop == Init /\ [][NextLoop]_vars

\* BlobPoster.run, one poll: fetch_uncommitted_blocks selects the column
\* json, which the blocks table does not have; the error is caught and the
\* list of blocks to post is empty. The retry queue, fed from that list
\* only, stays empty.
PosterPoll ==
    /\ ret' = [op |-> "poster_poll", tx |-> "-", result |-> "[]"]
    /\ UNCHANGED <<hasInputsColumns, loop, poster, posted, bridge, utxos, transactions, blocks, deposits, leaves, nodes,
                   pending, workers, gen, spentBy, calls>>

\* The post of the loop that returned a reference.
PostSucceeds ==
    /\ LoopPost
    /\ gen.height \in DOMAIN blocks => blocks'[gen.height].blob_ref = "ref"

NextLive ==
    \/ \E t \in LiveTxIds : ProcessTransactionFast(t)
    \/ LoopStats
    \/ GenerateBegin
    \/ GenerateApply
    \/ GenerateFinish
    \/ LoopPost
    \/ PosterPoll

\* The generator thread and the poster daemon keep running; a post that can
\* be tried again and again eventually succeeds.
Fairness ==
    /\ WF_vars(LoopStats) /\ WF_vars(GenerateBegin) /\ WF_vars(GenerateApply)
    /\ WF_vars(GenerateFinish) /\ WF_vars(LoopPost) /\ WF_vars(PosterPoll)
    /\ SF_vars(PostSucceeds)

SpecLive == Init /\ [][NextLive]_vars /\ Fairness

\* An iteration of the loop that decides to generate: with pending
\* transactions and an advancing clock the force-flush of 5 x block_interval
\* makes it happen again and again.
RoundStarts == LoopStats /\ gen'.pc = "generate"

SpecFlush == Init /\ [][NextLive]_vars /\ Fairness /\ SF_vars(RoundStarts)

\* ------------------------------------- the purge over the wallet's rows

\* The transactions the command-line wallet writes in batch mode: a chain
\* t1 -> t2, and t3 and t4 that claim the input of t1.
PurgeTxIds == {"t1", "t2", "t3", "t4"}

NextPurge ==
    \/ \E t \in PurgeTxIds : CliInsertTransaction(t)
    \/ LoopStats
    \/ GenerateBegin
    \/ GenerateApply
    \/ GenerateFinish
    \/ LoopPost

SpecPurge == Init /\ [][NextPurge]_vars

NextApply ==
    \/ \E w \in Workers, t \in TxIds : ApplyBegin(w, t)
    \/ \E w \in Workers : ApplyCommit(w)
    \/ \E w \in Workers : ApplyBusy(w)
    \/ \E h \in DepositHashes, r \in Addresses, a \in DepositAmounts : ProcessDepositEvent(h, r, a)
    \/ \E t \in CliTxIds : CliInsertTransaction(t)

SpecApply == Init /\ [][NextApply]_vars

\* The transactions clients submit to either admission entry point.
AdmitTxIds == {"t1", "t2", "t3", "t7", "t8", "t9", "t10", "t11"}

\* The admission entry points, the wallet's direct write, and the merge of
\* stored rows into the queue by get_transaction_stats.
NextAdmit ==
    \/ \E t \in AdmitTxIds : ProcessTransactionFast(t)
    \/ \E t \in AdmitTxIds : ProcessTransaction(t)
    \/ \E t \in CliTxIds : CliInsertTransaction(t)
    \/ LoopStats

SpecAdmit == Init /\ [][NextAdmit]_vars

\* The bridge handlers and the ledger's deposit entry point.
NextBridge ==
    \/ \E f \in DepositShapes, h \in BridgeHashes, r \in Addresses, a \in DepositAmounts,
          n \in NotifyOutcomes : HandleDepositReceived(f, h, r, a, n)
    \/ \E f \in WithdrawalShapes, h \in BridgeHashes, n \in NotifyOutcomes :
          HandleWithdrawalConfirmed(f, h, n)
    \/ \E h \in BridgeHashes, r \in Addresses, a \in DepositAmounts : ProcessDepositEvent(h, r, a)

SpecBridge == Init /\ [][NextBridge]_vars

\* ---------------------------------------- SparseMerkleTree on its own

\* Keys given to the tree: "t1:0" and "t1:1" share a path, "t2:0" and
\* "t3:0" share a parent node.
TreeKeys == {GenesisKey, Key("t1", 0), Key("t1", 1), Key("t2", 0), Key("t3", 0)}

TreeValues == {LeafValue("A", 1), LeafValue("B", 2)}

\* SparseMerkleTree(): an empty tree, nothing else in use.
InitTree ==
    /\ hasInputsColumns = FALSE
    /\ utxos = GenesisUtxos
    /\ transactions = <<>>
    /\ blocks = NoBlocks
    /\ deposits = {}
    /\ leaves = EmptyTree.leaves
    /\ nodes = EmptyTree.nodes
    /\ pending = <<>>
    /\ workers = [w \in Workers |-> IdleWorker]
    /\ gen = IdleGen
    /\ ret = NoRet
    /\ bridge = BridgeIdle
    /\ spentBy = [k \in {} |-> {}]
    /\ calls = 0
    /\ loop = LoopStart
    /\ poster = PosterIdle
    /\ posted = 0

\* update(key, value): insert a new key or replace the value of a present one.
SmtUpdate(k, v) ==
    /\ leaves' = TreeUpdate(Tree, k, v).leaves
    /\ nodes' = TreeUpdate(Tree, k, v).nodes
    /\ ret' = [op |-> "update", tx |-> k[1],
               result |-> IF k \in DOMAIN leaves THEN "present" ELSE "absent"]
    /\ UNCHANGED <<hasInputsColumns, loop, poster, posted, bridge, utxos, transactions, blocks, deposits, pending, workers,
                   gen, spentBy, calls>>

\* update(key, None)
SmtDelete(k) ==
    /\ leaves' = TreeDelete(Tree, k).leaves
    /\ nodes' = TreeDelete(Tree, k).nodes
    /\ ret' = [op |-> "delete", tx |-> k[1],
               result |-> IF k \in DOMAIN leaves THEN "present" ELSE "absent"]
    /\ UNCHANGED <<hasInputsColumns, loop, poster, posted, bridge, utxos, transactions, blocks, deposits, pending, workers,
                   gen, spentBy, calls>>

NextTree ==
    \/ \E k \in TreeKeys, v \in TreeValues : SmtUpdate(k, v)
    \/ \E k \in TreeKeys : SmtDelete(k)

SpecTree == InitTree /\ [][NextTree]_vars

\* ------------------------------------------------- the blocks table alone

\* The writers of the blocks table, called on blocks of two heights and two
\* contents, by any process that shares the database.
BlockHeights == {0, 1}

BlockBodies == {<<"t1">>, <<"t2", "t3">>}

BlockInputs ==
    {BlockRow(h, Some(HeaderHash(h, EmptyString, ZeroHash, Len(b))), EmptyString, ZeroHash, b, r) :
        h \in BlockHeights, b \in BlockBodies, r \in {"", "ref"}}

\* db.save_block(block)
SaveBlockCall(row, o) ==
    /\ LET sv == SaveBlock(row, o) IN
        /\ blocks' = sv.blocks
        /\ transactions' = sv.transactions
        /\ ret' = [op |-> "save_block", tx |-> row.txs[1],
                   result |-> IF sv.raised THEN "raised" ELSE "True"]
    /\ UNCHANGED <<hasInputsColumns, loop, poster, posted, bridge, utxos, deposits, leaves, nodes, pending, workers,
                   gen, spentBy, calls>>

\* db.update_block_blob_ref(height, blob_ref), blob_ref being what
\* CelestiaClient.post_block returned: a reference, or None.
UpdateBlockBlobRefCall(height, ref) ==
    /\ blocks' = UpdateBlockBlobRef(height, ref)
    /\ ret' = [op |-> "update_block_blob_ref", tx |-> "-", result |-> "True"]
    /\ UNCHANGED <<hasInputsColumns, loop, poster, posted, bridge, utxos, transactions, deposits, leaves, nodes, pending,
                   workers, gen, spentBy, calls>>

\* BlobPoster.process_block(block): a failed post returns False; a
\* reference is written by BlobPoster.mark_block_committed, whose notify
\* call raises after the commit, so that it answers False.
ProcessBlock(height, o) ==
    /\ o # "ref" => blocks' = blocks
    /\ o = "ref" => blocks' = UpdateBlockBlobRef(height, "ref2")
    /\ ret' = [op |-> "process_block", tx |-> "-", result |-> "False"]
    /\ UNCHANGED <<hasInputsColumns, loop, poster, posted, bridge, utxos, transactions, deposits, leaves, nodes, pending,
                   workers, gen, spentBy, calls>>

NextBlocks ==
    \/ \E row \in BlockInputs, o \in SaveOutcomes : SaveBlockCall(row, o)
    \/ \E h \in BlockHeights, r \in {"ref", "None"} : UpdateBlockBlobRefCall(h, r)
    \/ \E h \in BlockHeights, o \in PostOutcomes : ProcessBlock(h, o)

SpecBlocks == Init /\ [][NextBlocks]_vars

\* ----------------------------------------------- the blob poster's retries

\* BlobPoster.__init__: max_retries, default 3.
MaxRetries == 3

\* A loop that grants one attempt more.
RetryAgainOnceMore(retry_count) == retry_count <= MaxRetries + 1

\* post_block_to_celestia, lines 141 and 164: retry_count <= self.max_retries
RetryAgain(retry_count) == retry_count <= MaxRetries

\* A poster that marks the block whatever the DA client answered.
PosterMarksAlways(o) == TRUE

\* process_block, lines 203-210: mark_block_committed is reached only with
\* a blob reference.
PosterMarks(o) == o = "ref"

\* BlobPoster.process_block(block) is entered, by run for a block that is
\* not in retry_queue or by process_retry_queue for one that is, and
\* post_block_to_celestia starts with retry_count = 0.
PosterProcessBlock(h) ==
    /\ poster.pc = "idle"
    /\ h \in DOMAIN blocks
    /\ poster' = [poster EXCEPT !.pc = "attempt", !.height = h, !.retry_count = 0,
                                !.attempts = 0, !.result = "-"]
    /\ ret' = [op |-> "process_block", tx |-> "-", result |-> "-"]
    /\ UNCHANGED <<hasInputsColumns, loop, posted, bridge, utxos, transactions, blocks, deposits,
                   leaves, nodes, pending, workers, gen, spentBy, calls>>

\* One pass of the while loop of post_block_to_celestia, and on its return
\* the rest of process_block.  The DA client answers with a reference, with
\* None, or raises CelestiaSubmissionError.  With a reference the height
\* leaves retry_queue and mark_block_committed writes the reference; its
\* notify call raises when a notification manager is set, after the commit.
\* Without one the height enters retry_queue, and the call ends with None
\* once retry_count exceeds max_retries.
PosterAttempt(o, notifier) ==
    LET h == poster.height
        rc == poster.retry_count + 1 IN
    /\ poster.pc = "attempt"
    /\ blocks' = IF PosterMarks(o) THEN UpdateBlockBlobRef(h, "ref2") ELSE blocks
    /\ IF o = "ref"
       THEN /\ poster' = [poster EXCEPT !.pc = "idle", !.attempts = @ + 1, !.result = "ref2",
                                        !.retry_queue = @ \ {h}, !.returned = @ \cup {h}]
            /\ ret' = [op |-> "process_block", tx |-> "-",
                       result |-> IF notifier \/ h \notin DOMAIN blocks THEN "False" ELSE "True"]
       ELSE /\ poster' = [poster EXCEPT !.pc = IF RetryAgain(rc) THEN "attempt" ELSE "idle",
                                        !.attempts = @ + 1, !.retry_count = rc,
                                        !.result = IF RetryAgain(rc) THEN "-" ELSE "None",
                                        !.retry_queue = @ \cup {h}]
            /\ ret' = [op |-> "process_block", tx |-> "-",
                       result |-> IF RetryAgain(rc) THEN "-" ELSE "False"]
    /\ UNCHANGED <<hasInputsColumns, loop, posted, bridge, utxos, transactions, deposits,
                   leaves, nodes, pending, workers, gen, spentBy, calls>>

PosterStep == \E o \in PostOutcomes, notifier \in BOOLEAN : PosterAttempt(o, notifier)

NextPoster ==
    \/ \E row \in BlockInputs, o \in SaveOutcomes : SaveBlockCall(row, o)
    \/ \E h \in BlockHeights : PosterProcessBlock(h)
    \/ PosterStep

\* The poster's thread keeps running: a call in progress takes its next
\* attempt.
SpecPoster == Init /\ [][NextPoster]_vars /\ WF_vars(PosterStep)

\* ------------------------------------------------------------- properties

\* C1: under any interleaving of apply_transaction calls no UTXO key is
\* consumed as an input by two different transactions whose apply changed
\* state: of two transactions naming the same unspent UTXO at most one is
\* applied.
C1_NoDoubleSpend == \A k \in DOMAIN spentBy : Cardinality(spentBy[k]) <= 1

\* Two callers passed the pre-check on the same unspent UTXO; t1 was applied
\* and t3 was turned away inside the exclusive transaction.
C1_RaceLost ==
    /\ GenesisKey \in DOMAIN spentBy
    /\ spentBy[GenesisKey] = {"t1"}
    /\ ret = [op |-> "apply", tx |-> "t3", result |-> "TransactionValidationError"]

Balanced(t) == TotalInput(t) = TotalOutput(t) + Tx(t).fee

\* C2: apply_transaction succeeds only if the input amounts sum to exactly
\* the output amounts plus the fee, and so every transaction of a persisted
\* block is balanced.
C2_ExactBalance ==
    /\ (ret.op = "apply" /\ ret.result = "True") => Balanced(ret.tx)
    /\ \A h \in DOMAIN blocks : \A i \in DOMAIN blocks[h].txs : Balanced(blocks[h].txs[i])

\* C3: over apply_transaction, process_deposit_event, block generation and
\* purge, a UTXO row with status spent stays in the table with status spent:
\* it never becomes unspent and its key is never inserted again.
C3_SpentIsFinal ==
    [][\A k \in DOMAIN utxos :
          utxos[k].status = "spent" =>
              (k \in DOMAIN utxos' /\ utxos'[k].status = "spent")]_vars

\* The deposit UTXO was spent and a second deposit event for the same L1
\* hash then tried to insert its key again.
C3_SpentKeyInsertedAgain ==
    /\ Key(DepositTxid("h0"), 0) \in DOMAIN utxos
    /\ utxos[Key(DepositTxid("h0"), 0)].status = "spent"
    /\ ret = [op |-> "deposit", tx |-> DepositTxid("h0"), result |-> "IntegrityError"]
    /\ Cardinality(deposits) = 2

\* The errors apply_transaction raises for an input that cannot be spent.
InputErrors == {"InputNotFound", "InputSpent", "NotOwner", "TransactionValidationError"}

\* C4: a call of apply_transaction that reaches the write changes state only
\* if every input row exists, is unspent and belongs to the sender at that
\* moment; when some input does not, the call fails with an input error,
\* also when another apply ran between its pre-check and its write.
C4_InputsHoldAtWrite ==
    [][\A t \in TxIds :
          (ret'.op = "apply" /\ ret'.tx = t /\ ret'.result # "OperationalError") =>
              /\ (utxos' # utxos \/ transactions' # transactions \/ leaves' # leaves
                  \/ nodes' # nodes)
                    => CheckInputsSpendable(t) = "ok"
              /\ CheckInputsSpendable(t) # "ok" => ret'.result \in InputErrors]_vars

HasDuplicateInputs(t) == Cardinality(InputKeys(t)) < Len(Tx(t).inputs)

\* C5: a transaction that lists the same input key twice is never applied:
\* no apply of it changes state and no row of it is stored.
C5_DuplicateInputsNeverApplied ==
    \A t \in TxIds :
        HasDuplicateInputs(t) =>
            /\ t \notin TxRowIds
            /\ \A k \in DOMAIN spentBy : t \notin spentBy[k]

\* C6: whenever apply_transaction raises, the utxos table, the transactions
\* table and the tree are what they were before the call.
C6_FailedApplyChangesNothing ==
    [][(ret'.op \in {"apply", "apply_check"} /\ ret'.result \notin {"True", "ok"}) =>
          (utxos' = utxos /\ transactions' = transactions /\ leaves' = leaves
           /\ nodes' = nodes)]_vars

\* C7: for every transaction contained in a persisted block each input is
\* marked spent in the utxos table and each output has a row there.
C7_BlockTxsAreApplied ==
    \A h \in DOMAIN blocks : \A i \in DOMAIN blocks[h].txs :
        LET t == blocks[h].txs[i] IN
        /\ \A k \in InputKeys(t) : k \in DOMAIN utxos /\ utxos[k].status = "spent"
        /\ \A k \in OutputKeys(t) : k \in DOMAIN utxos

\* C8: each transaction id appears in the transactions of at most one
\* persisted block, and once there.
C8_TxInOneBlock ==
    \A h1, h2 \in DOMAIN blocks :
        \A i \in DOMAIN blocks[h1].txs : \A j \in DOMAIN blocks[h2].txs :
            blocks[h1].txs[i] = blocks[h2].txs[j] => (h1 = h2 /\ i = j)

C10_HeightsContiguous ==
    [][/\ \A h \in (DOMAIN blocks') \ (DOMAIN blocks) :
             DOMAIN blocks = {} \/ h = Max(DOMAIN blocks) + 1
       /\ \A h \in DOMAIN blocks :
             /\ h \in DOMAIN blocks'
             /\ blocks'[h].hash = blocks[h].hash
             /\ blocks'[h].txs = blocks[h].txs]_vars

\* A second block has just been persisted above the first.
C10_TwoBlocksStored ==
    /\ Cardinality(DOMAIN blocks) = 2
    /\ ret = [op |-> "generate", tx |-> "-", result |-> "block"]
    /\ gen.pc = "post"

\* Position of x in the sequence s, 0 when absent.
IndexOf(s, x) == IF \E i \in DOMAIN s : s[i] = x THEN CHOOSE i \in DOMAIN s : s[i] = x ELSE 0

\* b names an output of a among its inputs.
SpendsOutputOf(b, a) == a # b /\ InputKeys(b) \cap OutputKeys(a) # {}

BootRootMatches == CalculateRoot(BootTree(utxos)) = StateRoot

\* C12: on a database whose transactions table has the columns the ledger
\* writes (there a failed call changes neither storage nor tree), after any
\* sequence of apply_transaction and process_deposit_event calls a fresh
\* Ledger booted from the same storage has the state_root of the running
\* ledger, also for keys whose tree paths coincide and after inputs were
\* deleted from the tree.
C12_BootRootEqualsRunning == hasInputsColumns => BootRootMatches

\* On that database a failed apply_transaction leaves storage and tree alone.
FailedApplyKeepsTree ==
    [][(hasInputsColumns /\ ret'.op = "apply" /\ ret'.result # "True")
          => (utxos' = utxos /\ transactions' = transactions /\ leaves' = leaves
              /\ nodes' = nodes)]_vars

\* The value stored under a key of the tree (the third part of its leaf hash).
LeafValueOf(k) == leaves[k][3]

\* C13: for every key present in the tree after any sequence of inserts,
\* updates and deletes, verify_proof(key, value, generate_proof(key),
\* get_root()) is true.
C13_ProofOfPresentKeyVerifies ==
    \A k \in DOMAIN leaves :
        VerifyProof(k, LeafValueOf(k), GenerateProof(Tree, k), CalculateRoot(Tree))

\* C14: update(key, None) for a key that is not in the tree changes neither
\* get_root(), nor the set of keys, nor the proof generated for any key that
\* is present.
C14_DeleteAbsentIsNoOp ==
    [][\A k \in TreeKeys :
          (k \notin DOMAIN leaves /\ ret'.op = "delete" /\ ret'.result = "absent"
              /\ leaves' = TreeDelete(Tree, k).leaves /\ nodes' = TreeDelete(Tree, k).nodes)
          => /\ CalculateRoot(Tree') = CalculateRoot(Tree)
             /\ DOMAIN leaves' = DOMAIN leaves
             /\ \A q \in DOMAIN leaves : GenerateProof(Tree', q) = GenerateProof(Tree, q)]_vars

\* C15: after one or more handle_deposit_received calls carrying a hash
\* with all required fields present, storage holds the UTXO
\* "deposit:<l1_tx_hash>":0 (one row, by the primary key of utxos) and the
\* tree holds its key.
C15_DepositMintsOneUtxo ==
    \A h \in bridge.handled :
        /\ Key(DepositTxid(h), 0) \in DOMAIN utxos
        /\ Key(DepositTxid(h), 0) \in DOMAIN leaves

HandlerOps == {"handle_deposit", "handle_withdrawal"}

RequiredFields == [handle_deposit |-> HandlerDepositFields, handle_withdrawal |-> HandlerWithdrawalFields]

\* C16: handle_deposit_received and handle_withdrawal_confirmed return True
\* or False and never raise; with a required field missing they return False
\* without calling the ledger, and when the ledger returns False or raises
\* they return False and emit no notification.
C16_HandlersFailSoft ==
    [][ret'.op \in HandlerOps =>
          /\ ret'.result \in {"True", "False"}
          /\ ~(RequiredFields[ret'.op] \subseteq bridge'.fields)
                => (ret'.result = "False" /\ ~bridge'.ledger_called
                    /\ UNCHANGED <<utxos, deposits, leaves, nodes>>)
          /\ (bridge'.ledger_called /\ bridge'.ledger_result # "True")
                => (ret'.result = "False" /\ bridge'.notified = bridge.notified)]_vars

\* A deposit handler call reached the ledger, which raised, and returned False.
C16_LedgerRaised ==
    /\ ret.op = "handle_deposit"
    /\ ret.result = "False"
    /\ bridge.ledger_called
    /\ bridge.ledger_result = "IntegrityError"

AdmitOps == {"admit", "process_transaction"}

Refusals == {"rejected", "ProcessingError(InsufficientFeeError)", "ProcessingError(AttributeError)"}

\* C17: admission turns away a transaction whose fee is strictly below
\* minimum_transaction_fee and leaves the pending queue unchanged; a
\* transaction whose fee equals the floor is not turned away for its fee:
\* process_transaction_fast accepts it when its other checks pass, and
\* process_transaction does not raise InsufficientFeeError for it.
C17_FeeFloor ==
    [][ret'.op \in AdmitOps =>
          /\ Tx(ret'.tx).fee < MinimumFee
                => (ret'.result \in Refusals /\ pending' = pending)
          /\ (ret'.op = "admit" /\ Tx(ret'.tx).fee = MinimumFee
                 /\ ret'.tx \notin SeqToSet(pending) /\ Tx(ret'.tx).sig
                 /\ Tx(ret'.tx).inputs # <<>> /\ Tx(ret'.tx).outputs # <<>>)
                => (ret'.result = "provisionally_accepted" /\ pending' = Append(pending, ret'.tx))
          /\ (ret'.op = "process_transaction" /\ Tx(ret'.tx).fee = MinimumFee)
                => ret'.result # "ProcessingError(InsufficientFeeError)"]_vars

\* t1, whose fee equals the floor, is queued, and t8, with a fee below it,
\* was turned away.
C17_BelowFloorRejected ==
    /\ ret = [op |-> "admit", tx |-> "t8", result |-> "rejected"]
    /\ pending = <<"t1">>

PendingDistinct(q) == \A i, j \in DOMAIN q : i # j => q[i] # q[j]

\* C19: admission turns away a transaction whose txid is already in the
\* pending queue or already stored as an uncommitted row, and the pending
\* queue never holds two entries with the same txid, also after
\* get_transaction_stats merged the uncommitted rows into it.
C19_DuplicatesRejected ==
    [][/\ (ret'.op = "admit"
             /\ (ret'.tx \in SeqToSet(pending) \/ ret'.tx \in SeqToSet(FetchUncommitted)))
            => (ret'.result = "rejected" /\ pending' = pending)
       /\ PendingDistinct(pending')]_vars

\* C20: after process_transaction_fast answered provisionally accepted, the
\* transaction has a row in storage with block_height NULL and is in the
\* pending queue exactly once.
C20_AdmittedIsStored ==
    [][(ret'.op = "admit" /\ ret'.result = "provisionally_accepted")
          => /\ \E i \in DOMAIN transactions' :
                   /\ transactions'[i].txid = ret'.tx
                   /\ transactions'[i].block_height = NULL
             /\ Cardinality({i \in DOMAIN pending' : pending'[i] = ret'.tx}) = 1]_vars

\* The pending queue never holds a txid twice.
PendingAlwaysDistinct == PendingDistinct(pending)

\* C21: a transaction whose txid is not the hash of its content is turned
\* away at admission, also when its body is validly signed.
C21_AlteredTxidRejected ==
    [][(ret'.op \in AdmitOps /\ ContentHash(ret'.tx) # ret'.tx)
          => (ret'.result \in Refusals /\ pending' = pending)]_vars

Immutable(b) == [height |-> b.height, hash |-> b.hash, prev_hash |-> b.prev_hash,
                 state_root |-> b.state_root, tx_count |-> b.tx_count, txs |-> b.txs]

\* C23: a block row, once written, stays, and its header fields other than
\* blob_ref and its transaction list never change; save_block on a height
\* that has a row leaves them as stored.
C23_RowsImmutable ==
    [][\A h \in DOMAIN blocks :
          h \in DOMAIN blocks' /\ Immutable(blocks'[h]) = Immutable(blocks[h])]_vars

\* save_block returned True for a block of height 0 whose transactions are
\* not those of the stored row.
C23_SavedOverExisting ==
    /\ ret.op = "save_block" /\ ret.result = "True"
    /\ DOMAIN blocks = {0}
    /\ blocks[0].txs # <<>>
    /\ blocks[0].txs[1] # ret.tx

\* The step of the loop that ends a round whose block was persisted and
\* whose post raised or returned None.
FailedPostStep ==
    /\ gen.pc = "post" /\ gen'.pc = "loop"
    /\ gen.height \in DOMAIN blocks
    /\ gen.height \in DOMAIN blocks' => blocks'[gen.height].blob_ref \in EmptyRefs

\* What a failed post leaves alone besides the block rows: the
\* transactions table, the UTXO set, the tree; and the next round is for
\* the next height, with the hash of this block to link to.
FailedPostKeepsRest ==
    /\ transactions' = transactions /\ utxos' = utxos
    /\ leaves' = leaves /\ nodes' = nodes
    /\ DOMAIN blocks' # {}
    /\ Max(DOMAIN blocks') + 1 = gen.height + 1
    /\ blocks'[Max(DOMAIN blocks')].hash # NULL

\* C24 as stated: after a failed DA submission the persisted block row, the
\* block_height of its transactions, the UTXO set and the state root are
\* exactly as they were after the block was persisted, and generation
\* continues at the next height.
C24_FailedPostKeepsRowExactly ==
    [][FailedPostStep => (blocks' = blocks /\ FailedPostKeepsRest)]_vars

\* C24, amended: the same, the block row keeping its header fields and its
\* transaction list while its blob_ref stays empty, '' or NULL.
C24_FailedPostKeepsState ==
    [][FailedPostStep
          => /\ DOMAIN blocks' = DOMAIN blocks
             /\ \A h \in DOMAIN blocks :
                   /\ Immutable(blocks'[h]) = Immutable(blocks[h])
                   /\ h # gen.height => blocks'[h].blob_ref = blocks[h].blob_ref
             /\ FailedPostKeepsRest]_vars

\* The post of block 0 raised, its row kept the empty blob_ref, and block 1
\* was generated after it.
C24_NextBlockAfterFailedPost ==
    /\ DOMAIN blocks = {0, 1}
    /\ blocks[0].blob_ref = "" /\ blocks[0].txs # <<>>
    /\ gen.pc = "loop"

\* C25: a persisted block above the first height whose blob_ref is empty
\* eventually has a reference written, given that the generator and the
\* poster keep running and that posts eventually succeed.
C25_EmptyRefEventuallyWritten ==
    (1 \in DOMAIN blocks /\ blocks[1].blob_ref \in EmptyRefs)
        ~> (1 \in DOMAIN blocks /\ blocks[1].blob_ref \notin EmptyRefs)

\* Once the round that produced a block is over, no step writes a
\* reference into its empty blob_ref.
EmptyRefStaysEmpty ==
    [][\A h \in DOMAIN blocks :
          (blocks[h].blob_ref \in EmptyRefs /\ ~(gen.pc = "post" /\ gen.height = h))
             => (h \in DOMAIN blocks' /\ blocks'[h].blob_ref \in EmptyRefs)]_vars

\* The transactions whose apply consumed an input.
AppliedTxs == UNION {spentBy[k] : k \in DOMAIN spentBy}

InBlock(t) == \E h \in DOMAIN blocks : t \in SeqToSet(blocks[h].txs)

\* C26: when save_block failed after apply_transaction had committed the
\* changes of a transaction, nothing partial is left once the round is
\* over: the transaction is in a block, or its row is still stored, not
\* deleted by the purger, and it is in the pending queue or among the
\* uncommitted rows the loop merges into it, to be included in a block.
C26_NoPartialState ==
    gen.pc = "loop"
        => \A t \in AppliedTxs :
              \/ InBlock(t)
              \/ /\ t \in TxRowIds
                 /\ t \in SeqToSet(pending) \/ t \in SeqToSet(FetchUncommitted)

\* Two different transactions that name a common input.
Conflicting(t, u) == t # u /\ InputKeys(t) \cap InputKeys(u) # {}

\* C27: of two transactions that reference the same unspent UTXO one is
\* included in a block and the other is deleted by the purger and never
\* included: no two conflicting transactions are ever both in blocks.
C27_OneOfTwoSpendersIncluded ==
    \A t \in FastTxIds, u \in FastTxIds : Conflicting(t, u) => ~(InBlock(t) /\ InBlock(u))

\* C28: under any interleaving of admission with the generator thread's
\* snapshot, merge and clear of the pending queue, a queued transaction
\* leaves the queue only when it was applied in the round being cleared,
\* an admitted transaction is in the queue, and no txid is queued twice.
C28_QueueKeepsAdmitted ==
    [][/\ \A t \in SeqToSet(pending) :
             t \in SeqToSet(pending') \/ t \in SeqToSet(gen.applied)
       /\ (ret'.op = "admit" /\ ret'.result = "provisionally_accepted")
             => ret'.tx \in SeqToSet(pending')
       /\ PendingDistinct(pending')]_vars

\* The transactions whose row carries a block height.
CommittedTxs ==
    {transactions[i].txid : i \in {j \in DOMAIN transactions : transactions[j].block_height # NULL}}

\* C29: apply_transaction on a transaction that is committed in a block
\* returns True and changes neither the tables nor the tree; it does not
\* fail on the spent inputs.
C29_ReplayOfCommittedSucceeds ==
    [][(ret'.op = "apply" /\ ret'.tx \in CommittedTxs)
          => /\ ret'.result = "True"
             /\ utxos' = utxos /\ transactions' = transactions
             /\ leaves' = leaves /\ nodes' = nodes]_vars

\* C30: in a round of generate_block every transaction of the batch is
\* applied in turn, one whose apply fails being skipped without ending the
\* round, and the list of the round grows by exactly those for which
\* apply_transaction returned True, in that order; the block row written
\* at the end holds that list as its transactions and its length as
\* header.tx_count.
C30_BlockHoldsAppliedInOrder ==
    [][/\ (gen.pc = "apply" /\ ret'.op = "apply")
             => /\ gen'.pc = "apply" /\ gen'.sorted = gen.sorted /\ gen'.i = gen.i + 1
                /\ ret'.tx = gen.sorted[gen.i]
                /\ gen'.applied = IF ret'.result = "True"
                                  THEN Append(gen.applied, ret'.tx) ELSE gen.applied
       /\ \A h \in DOMAIN blocks' \ DOMAIN blocks :
             /\ gen.applied # <<>>
             /\ blocks'[h].txs = gen.applied
             /\ blocks'[h].tx_count = Len(blocks'[h].txs)]_vars

\* A block was produced from a batch of which one transaction failed to
\* apply and was skipped.
C30_BlockWithSkippedTx ==
    /\ ret.op = "generate" /\ ret.result = "block"
    /\ gen.pc = "post" /\ gen.height \in DOMAIN blocks
    /\ Len(gen.sorted) > Len(gen.applied)
    /\ blocks[gen.height].txs = gen.applied

\* C31: a round of generate_block in which nothing could be applied
\* returns None and writes no block row and no block_height; every block
\* row a round writes has tx_count > 0, so the only stored block with
\* tx_count = 0 is the genesis block.
C31_NoEmptyBlock ==
    /\ [](\A h \in DOMAIN blocks : blocks[h].tx_count = 0 => blocks[h] = GenesisBlocks[0])
    /\ [][(ret'.op = "generate" /\ ret'.result = "None")
             => (blocks' = blocks /\ transactions' = transactions)]_vars

\* A round ended with None after its only transaction failed to apply,
\* while a block of an earlier round is stored.
C31_RoundAbandoned ==
    /\ ret.op = "generate" /\ ret.result = "None"
    /\ gen.pc = "loop"
    /\ pending # <<>>
    /\ \E h \in DOMAIN blocks : blocks[h].tx_count > 0

\* The block_height stored for txid t, NULL when t has no row.
BlockHeightOf(t) ==
    IF \E i \in DOMAIN transactions : transactions[i].txid = t
    THEN (CHOOSE r \in SeqToSet(transactions) : r.txid = t).block_height
    ELSE NULL

\* C32: the block row of height h and the block_height = h of its
\* transactions are written as one step: in every state each transaction
\* of a stored block has a block_height, and each block_height names a
\* stored block.
C32_BlockAndHeightsTogether ==
    /\ \A h \in DOMAIN blocks : \A t \in SeqToSet(blocks[h].txs) : BlockHeightOf(t) # NULL
    /\ \A i \in DOMAIN transactions :
          transactions[i].block_height # NULL
             => TheValue(transactions[i].block_height) \in DOMAIN blocks

\* C33: an iteration of the loop that finds at least max_block_transactions
\* pending transactions goes on to generate_block in that iteration,
\* whatever the state of the batch collection.
C33_FullBlockGeneratesAtOnce ==
    [][(ret'.op = "loop" /\ gen.pc = "loop" /\ loop'.now = loop.now
          /\ Len(pending') >= MaxBlockSize)
          => gen'.pc = "generate"]_vars

\* apply_transaction would apply t as the tables are now.
WouldAccept(t) == PreCheck(t) = "ok" /\ ApplyExclusive(t).committed

\* C34: while the generator runs, a pending transaction that the ledger
\* would accept is eventually in a persisted block, given a fair loop whose
\* force-flush keeps starting rounds.
C34_AcceptableEventuallyInBlock ==
    ("t1" \in SeqToSet(pending) /\ WouldAccept("t1")) ~> InBlock("t1")

\* Input k of the uncommitted row t is sound when the rows in removed are
\* deleted: an unspent UTXO of the table that no committed row and no other
\* surviving row claims, or an output of another uncommitted row that
\* survives.
SoundInput(t, k, removed) ==
    LET U == SeqToSet(FetchUncommitted) IN
    \/ /\ k \in DOMAIN utxos
       /\ utxos[k].status = "unspent"
       /\ k \notin CommittedInputs
       /\ \A u \in (U \ removed) \ {t} : k \notin InputKeys(u)
    \/ /\ k[1] \in (U \ removed) \ {t}
       /\ k \in OutputKeys(k[1])

\* C35: purge_invalid_transactions deletes no uncommitted row all of whose
\* inputs are unspent committed UTXOs claimed by no other surviving row or
\* outputs of another uncommitted row that survives the purge.
C35_PurgeKeepsSoundRows ==
    \A t \in SeqToSet(FetchUncommitted) :
        (\A k \in InputKeys(t) : SoundInput(t, k, PurgeInvalidTransactions))
            => t \notin PurgeInvalidTransactions

\* get_transaction_stats has purged with the rows of the chain t1 -> t2
\* uncommitted and the input of t1 unspent: both rows are kept and merged
\* into the queue.
C35_ChainKept ==
    /\ \A i \in DOMAIN transactions : transactions[i].block_height = NULL
    /\ TxRowIds = {"t1", "t2"}
    /\ pending = <<"t1", "t2">>
    /\ utxos[GenesisKey].status = "unspent"
    /\ ret = NoRet /\ gen.pc = "loop"

\* apply_transaction has just refused t in a generation round.
RejectedAtApply(t) == ret.op = "apply" /\ ret.tx = t /\ ret.result # "True"

\* C36: a transaction the ledger rejects at apply time eventually leaves
\* storage and the pending queue (or is included by a later round), so it
\* is not retried for ever.
C36_RejectedEventuallyDropped ==
    \A t \in LiveTxIds :
        RejectedAtApply(t) ~> \/ t \notin SeqToSet(pending) /\ t \notin TxRowIds
                              \/ InBlock(t)

\* C40: for one block of one round the generator calls the DA client's
\* post_block at most once.
C40_BlockPostedOncePerRound == posted <= 1

\* A call of post_block_to_celestia returns in this step.
PostBlockReturns == poster.pc = "attempt" /\ poster'.pc = "idle"

\* C37: one call of post_block_to_celestia invokes the DA client at most
\* max_retries + 1 times and terminates; it returns a reference with the
\* height absent from retry_queue, or None after max_retries + 1 failed
\* attempts with the height in retry_queue.
C37_PostBlockBoundedAndEnds ==
    /\ [](poster.attempts <= MaxRetries + 1)
    /\ [][PostBlockReturns =>
            \/ /\ poster'.result = "ref2"
               /\ poster.height \in poster'.returned
               /\ poster.height \notin poster'.retry_queue
            \/ /\ poster'.result = "None"
               /\ poster'.attempts = MaxRetries + 1
               /\ poster.height \in poster'.retry_queue]_vars
    /\ (poster.pc = "attempt") ~> (poster.pc = "idle")

\* A call has returned None after max_retries + 1 failed attempts.
C37_AllAttemptsFailed ==
    /\ poster.pc = "idle" /\ poster.result = "None"
    /\ poster.attempts = MaxRetries + 1
    /\ poster.height \in poster.retry_queue

\* C38: the poster writes its reference to a block only after the DA client
\* returned one for that block; a call whose posting failed writes nothing
\* and leaves the height in retry_queue; a height leaves retry_queue only
\* in an attempt for that height that obtained a reference.
C38_MarkedOnlyAfterReference ==
    /\ [](\A h \in DOMAIN blocks : blocks[h].blob_ref = "ref2" => h \in poster.returned)
    /\ [][(PostBlockReturns /\ poster'.result = "None")
            => (blocks' = blocks /\ poster.height \in poster'.retry_queue)]_vars
    /\ [][\A h \in poster.retry_queue \ poster'.retry_queue :
            /\ poster.pc = "attempt" /\ poster.height = h
            /\ poster'.result = "ref2"]_vars

\* A call whose first attempt failed, which put the height into
\* retry_queue, and whose second attempt obtained the reference: the block
\* is marked and the height has left retry_queue.
C38_MarkedAtSecondAttempt ==
    /\ poster.pc = "idle" /\ poster.result = "ref2" /\ poster.attempts = 2
    /\ poster.height \in DOMAIN blocks
    /\ blocks[poster.height].blob_ref = "ref2"
    /\ poster.height \notin poster.retry_queue

\* generate_block, lines 270-280: the step in which TRANSACTION_INCLUDED is
\* sent for ret'.tx with block_height gen.height, right after
\* apply_transaction returned True.
TransactionIncludedSent ==
    /\ gen.pc = "apply" /\ gen'.pc = "apply" /\ gen'.i = gen.i + 1
    /\ ret'.op = "apply" /\ ret'.result = "True"

\* generate_block, lines 316-328: the step in which BLOCK_CREATED is sent
\* for gen.height, after the try block around save_block.
BlockCreatedSent ==
    /\ gen.pc = "apply" /\ gen'.pc = "post"
    /\ ret'.op = "generate" /\ ret'.result \in {"block", "save_failed"}

\* The rows a notification for height h speaks of are written: the block
\* row of h, and block_height = h in the rows of the transactions ids.
WrittenAfterStep(h, ids) ==
    /\ h \in DOMAIN blocks'
    /\ \A t \in ids : \E i \in DOMAIN transactions' :
          transactions'[i].txid = t /\ transactions'[i].block_height = Some(h)

\* C39: BLOCK_CREATED for height h and TRANSACTION_INCLUDED naming
\* block_height h are sent only once the block row of h and the
\* block_height of its transactions are written.
C39_NotifiedOnlyAfterWritten ==
    [][/\ TransactionIncludedSent => WrittenAfterStep(gen.height, {ret'.tx})
       /\ BlockCreatedSent => WrittenAfterStep(gen.height, SeqToSet(gen.applied))]_vars

====
